---- MODULE Spec2Model ----
(***************************************************************************)
(* Model of src/preprocess.py: the sanitizer clean_unicode_text, the       *)
(* record enricher extract_metadata, the tag unifier get_unified_tags and  *)
(* the batch pipeline process_posts that drives them.  The generation      *)
(* service (llm) is external: each call answers nondeterministically.      *)
(***************************************************************************)
EXTENDS Integers, Sequences, FiniteSets, TLC

VARIABLES
    file,            \* the input file: [status, content, save]
    pc,              \* position of process_posts
    posts,           \* json.load(file), line 35
    enriched_posts,  \* the list built by the loop of lines 38-55
    i,               \* index of the enrichment loop (1-based)
    j,               \* index of the rewrite loop of lines 61-64 (1-based)
    unified_tags,    \* the mapping returned by get_unified_tags, line 58
    response,        \* what the service answered to the latest extraction call
    tag_response,    \* what the service answered to the unification call
    calls,           \* number of chain.invoke calls made so far
    outfile,         \* what json.dump wrote, lines 67-69
    result,          \* the value process_posts returned
    raw,             \* sanitizer harness: the string first handed over
    text,            \* sanitizer harness: the current string
    passes           \* sanitizer harness: how often it was sanitized

vars == << file, pc, posts, enriched_posts, i, j, unified_tags, response,
           tag_response, calls, outfile, result, raw, text, passes >>

pipeline_vars == << file, pc, posts, enriched_posts, i, j, unified_tags,
                    response, tag_response, calls, outfile, result >>

harness_vars == << raw, text, passes >>

-----------------------------------------------------------------------------
(* Bounds *)

\* largest number of records in the input array
MaxPosts == 2

\* longest string handed to the sanitizer harness
MaxLen == 3

-----------------------------------------------------------------------------
(* Characters.  A string is a sequence of characters; each character is    *)
(* named by a token.                                                       *)

BS == "backslash"      \* the character \
LF == "LF"             \* a real newline
HT == "HT"             \* a real tab
SG == "U+D800"         \* a lone surrogate code point

Ascii == { BS, LF, HT, "n", "t", "a" }

Chars == Ascii \cup { SG }

IsSurrogate(c) == c = SG

\* re.sub(r'[\ud800-\udfff]', '', text), line 16
re_sub_surrogates(s) == SelectSeq(s, LAMBDA c : ~IsSurrogate(c))

\* str.replace(old, new): non-overlapping occurrences, left to right
RECURSIVE replace(_, _, _)
replace(s, old, new) ==
    IF Len(s) < Len(old) THEN s
    ELSE IF SubSeq(s, 1, Len(old)) = old
         THEN new \o replace(SubSeq(s, Len(old) + 1, Len(s)), old, new)
         ELSE << Head(s) >> \o replace(Tail(s), old, new)

\* text.replace('\\n', '\n').replace('\\t', '\t'), line 19
unescape(s) == replace(replace(s, << BS, "n" >>, << LF >>), << BS, "t" >>, << HT >>)

\* text.encode('utf-8', errors='ignore').decode('utf-8'), line 22:
\* code points that cannot be encoded (surrogates) are dropped
encode_decode(s) == SelectSeq(s, LAMBDA c : ~IsSurrogate(c))

\* a plausible slip: the escape is "handled" by dropping the backslash only
clean_unicode_text_dropping_backslash(s) ==
    encode_decode(replace(replace(re_sub_surrogates(s), << BS, "n" >>, << "n" >>),
                          << BS, "t" >>, << "t" >>))

\* clean_unicode_text on a str, lines 9-28.  None of the three steps can
\* raise on a str, so the except branch of lines 25-28 is not taken.
clean_unicode_text(s) == encode_decode(unescape(re_sub_surrogates(s)))

\* s.count(c), the number of occurrences of c in s (used by the properties)
count(s, c) == Cardinality({ k \in 1..Len(s) : s[k] = c })

\* s.split(c): the segments between the occurrences of c
RECURSIVE split(_, _)
split(s, c) ==
    IF \A k \in 1..Len(s) : s[k] # c THEN << s >>
    ELSE LET k == CHOOSE k \in 1..Len(s) : s[k] = c /\ \A m \in 1..(k - 1) : s[m] # c
         IN  << SubSeq(s, 1, k - 1) >> \o split(SubSeq(s, k + 1, Len(s)), c)

\* all strings of at most n characters
RECURSIVE Strings(_)
Strings(n) ==
    IF n = 0 THEN { << >> }
    ELSE LET shorter == Strings(n - 1)
         IN  shorter \cup { Append(s, c) : s \in { x \in shorter : Len(x) = n - 1 }, c \in Chars }

-----------------------------------------------------------------------------
(* JSON values.  t is the Python type of the value; "absent" stands for a   *)
(* key that the dict does not have.                                        *)

J(t, n, s, l) == [t |-> t, n |-> n, s |-> s, l |-> l]

Absent == J("absent", 0, "", << >>)
Null == J("null", 0, "", << >>)
Num(n) == J("int", n, "", << >>)
Str(s) == J("str", 0, s, << >>)
List(l) == J("list", 0, "", l)

\* a list nested inside a list of tags: not hashable
Nested == List(<< >>)

\* bool(v)
Truthy(v) ==
    CASE v.t = "int" -> v.n # 0
      [] v.t = "str" -> v.s # ""
      [] v.t = "list" -> v.l # << >>
      [] OTHER -> FALSE

\* hash(v) does not raise
Hashable(v) == v.t \in { "null", "int", "str" }

Range(q) == { q[k] : k \in 1..Len(q) }

-----------------------------------------------------------------------------
(* The input file.  A record has a text and one more caller-supplied field, *)
(* engagement.                                                             *)

Post(txt, eng) ==
    [text |-> txt, engagement |-> eng, line_count |-> Absent,
     language |-> Absent, tags |-> Absent]

RawPosts ==
    { Post(<< "a", BS, "n", "a" >>, Num(5)),
      Post(<< SG, "a" >>, Str("high")) }

RECURSIVE Arrays(_)
Arrays(n) ==
    IF n = 0 THEN { << >> }
    ELSE LET shorter == Arrays(n - 1)
         IN  shorter \cup { Append(a, p) : a \in { x \in shorter : Len(x) = n - 1 }, p \in RawPosts }

Files ==
    { [status |-> st, content |-> << >>, save |-> FALSE] : st \in { "missing", "invalid" } }
    \cup { [status |-> "ok", content |-> a, save |-> sv] : a \in Arrays(MaxPosts), sv \in BOOLEAN }

-----------------------------------------------------------------------------
(* What the generation service may answer to the extraction prompt.        *)
(*   raise  : chain.invoke raises                                          *)
(*   text   : the content is not JSON, json_parser.parse raises            *)
(*            OutputParserException                                        *)
(*   array, number : the content is JSON but not an object                 *)
(*   object : a JSON object, body gives its keys                           *)

NoBody == [line_count |-> Absent, language |-> Absent, tags |-> Absent, engagement |-> Absent]

Good ==
    [line_count |-> Num(2), language |-> Str("Hinglish"),
     tags |-> List(<< Str("A") >>), engagement |-> Absent]

TagValues ==
    { Absent, Null, Str("B"), Num(7),
      List(<< >>), List(<< Str("A") >>), List(<< Str("B") >>),
      List(<< Str("A"), Str("B") >>), List(<< Str("A"), Str("A") >>),
      List(<< Num(7) >>), List(<< Nested >>) }

ObjectBodies ==
    { [Good EXCEPT !.tags = v] : v \in TagValues }
    \cup { [Good EXCEPT !.line_count = v] : v \in { Absent, Null } }
    \cup { [Good EXCEPT !.language = v] : v \in { Absent, Str("English"), Str("French") } }
    \cup { [Good EXCEPT !.engagement = Num(0)] }

ExtractResponses ==
    { [kind |-> k, body |-> NoBody] : k \in { "raise", "text", "array", "number" } }
    \cup { [kind |-> "object", body |-> b] : b \in ObjectBodies }

NoResponse == [kind |-> "none", body |-> NoBody]

-----------------------------------------------------------------------------
(* extract_metadata, lines 85-129 *)

\* the dict of lines 125-129
default_metadata(cleaned_post) ==
    [line_count |-> Num(Len(split(cleaned_post, LF))),
     language |-> Str("English"),
     tags |-> List(<< Str("General") >>),
     engagement |-> Absent]

\* line 110: all(key in res for key in ['line_count', 'language', 'tags'])
has_required_keys(res) ==
    /\ res.line_count.t # "absent"
    /\ res.language.t # "absent"
    /\ res.tags.t # "absent"

\* lines 114-115
ensure_tags_list(res) ==
    IF res.tags.t # "list"
    THEN [res EXCEPT !.tags = IF Truthy(res.tags) THEN List(<< res.tags >>)
                              ELSE List(<< Str("General") >>)]
    ELSE res

\* The outcome of the call: raised is TRUE when OutputParserException leaves
\* the function (lines 119-121), otherwise res is the dict returned.
extract_metadata(post, r) ==
    LET cleaned_post == clean_unicode_text(post)
        returned(m) == [raised |-> FALSE, res |-> m]
    IN  CASE r.kind = "raise" -> returned(default_metadata(cleaned_post))
          [] r.kind = "text" -> [raised |-> TRUE, res |-> NoBody]
          [] r.kind \in { "array", "number" } -> returned(default_metadata(cleaned_post))
          [] r.kind = "object" ->
                IF has_required_keys(r.body)
                THEN returned(ensure_tags_list(r.body))
                ELSE returned(default_metadata(cleaned_post))

-----------------------------------------------------------------------------
(* process_posts, the enrichment loop, lines 38-55 *)

\* post | metadata, line 47: the union of the fields, metadata first
merge(post, metadata) ==
    [text |-> post.text,
     engagement |-> IF metadata.engagement.t # "absent" THEN metadata.engagement ELSE post.engagement,
     line_count |-> IF metadata.line_count.t # "absent" THEN metadata.line_count ELSE post.line_count,
     language |-> IF metadata.language.t # "absent" THEN metadata.language ELSE post.language,
     tags |-> IF metadata.tags.t # "absent" THEN metadata.tags ELSE post.tags]

\* a plausible slip: the newlines are counted instead of the lines
with_defaults_counting_newlines(post, cleaned_text) ==
    [post EXCEPT !.line_count = Num(count(cleaned_text, LF)),
                 !.language = Str("English"),
                 !.tags = List(<< Str("General") >>)]

\* lines 52-54
with_defaults(post, cleaned_text) ==
    [post EXCEPT !.line_count = Num(Len(split(cleaned_text, LF))),
                 !.language = Str("English"),
                 !.tags = List(<< Str("General") >>)]

\* the record appended for one post, lines 42-55
enrich(p, r) ==
    LET cleaned_text == clean_unicode_text(p.text)
        post == [p EXCEPT !.text = cleaned_text]
        m == extract_metadata(cleaned_text, r)
    IN  IF m.raised THEN with_defaults(post, cleaned_text) ELSE merge(post, m.res)

-----------------------------------------------------------------------------
(* What the generation service may answer to the unification prompt.  A    *)
(* JSON object is a function from its keys (strings) to its values.        *)

EmptyMap == << >>

TagMaps ==
    { EmptyMap,
      ("A" :> Str("C")) @@ ("B" :> Str("C")) @@ ("General" :> Str("General")),
      ("A" :> Str("B")),
      ("A" :> Str("C")) @@ ("Z" :> Str("C")),
      ("A" :> Num(7)),
      ("A" :> Nested) @@ ("B" :> Str("C")) }

UnifyResponses ==
    { [kind |-> k, map |-> EmptyMap] : k \in { "raise", "text", "array", "number" } }
    \cup { [kind |-> "object", map |-> m] : m \in TagMaps }

NoTagResponse == [kind |-> "none", map |-> EmptyMap]

-----------------------------------------------------------------------------
(* get_unified_tags, lines 132-179 *)

\* line 138: the tags of a post that has a list of them
usable_tags(post) == IF post.tags.t = "list" THEN post.tags.l ELSE << >>

\* lines 134-139: unique_tags after the loop
unique_tags(ps) == UNION { Range(usable_tags(ps[k])) : k \in 1..Len(ps) }

\* line 139: set.update raises TypeError on an element that is not hashable
update_raises(ps) == \E e \in unique_tags(ps) : ~Hashable(e)

\* line 144: ','.join raises TypeError on an element that is not a str
join_raises(tags) == \E e \in tags : e.t # "str"

\* a plausible slip: the fallback gives up and returns {}
identity_mapping_given_up(tags) == EmptyMap

\* lines 176 and 179: {tag: tag for tag in unique_tags}
identity_mapping(tags) == [k \in { e.s : e \in tags } |-> Str(k)]

\* a plausible slip: the line that reads res.values() is gone, so any JSON
\* object is returned as it is
mapping_from_any_object(u, tags) ==
    IF u.kind = "object" THEN u.map ELSE identity_mapping(tags)

\* lines 165-179: what is returned once the service has answered u.
\* parse raises on text; res.values() raises on a value that is no dict;
\* set(res.values()) raises on a value that is not hashable.
mapping_from(u, tags) ==
    IF /\ u.kind = "object"
       /\ \A k \in DOMAIN u.map : Hashable(u.map[k])
    THEN u.map
    ELSE identity_mapping(tags)

-----------------------------------------------------------------------------
(* process_posts, the rewrite loop, lines 61-64 *)

\* a plausible slip: post.get('tags') or ['General']
current_tags_or_general(post) ==
    IF post.tags.t = "absent" \/ post.tags.l = << >> THEN << Str("General") >> ELSE post.tags.l

\* post.get('tags', []), line 62
current_tags(post) == IF post.tags.t = "absent" THEN << >> ELSE post.tags.l

\* a plausible slip: unified_tags.get(tag, 'General')
get_or_general(mapping, tag) ==
    IF tag.t = "str" /\ tag.s \in DOMAIN mapping THEN mapping[tag.s] ELSE Str("General")

\* unified_tags.get(tag, tag), line 63
get(mapping, tag) ==
    IF tag.t = "str" /\ tag.s \in DOMAIN mapping THEN mapping[tag.s] ELSE tag

\* the set comprehension of line 63
new_tags(mapping, post) == { get(mapping, tag) : tag \in Range(current_tags(post)) }

\* list(new_tags), line 64: the elements of the set once each, in some order
lists_of(S) ==
    { q \in [1..Cardinality(S) -> S] : \A a, b \in 1..Cardinality(S) : a # b => q[a] # q[b] }

-----------------------------------------------------------------------------
(* The pipeline *)

NotWritten == [written |-> FALSE, content |-> << >>]

Idle ==
    /\ raw = << >>
    /\ text = << >>
    /\ passes = 0

Init ==
    /\ file \in Files
    /\ pc = "load"
    /\ posts = << >>
    /\ enriched_posts = << >>
    /\ i = 1
    /\ j = 1
    /\ unified_tags = EmptyMap
    /\ response = NoResponse
    /\ tag_response = NoTagResponse
    /\ calls = 0
    /\ outfile = NotWritten
    /\ result = << >>
    /\ Idle

\* lines 33-36 with a file that loads
Load ==
    /\ pc = "load"
    /\ file.status = "ok"
    /\ posts' = file.content
    /\ pc' = "enrich"
    /\ UNCHANGED << file, enriched_posts, i, j, unified_tags, response,
                    tag_response, calls, outfile, result, harness_vars >>

\* lines 33-35 and 74-79: the file is missing or is not JSON
LoadFails ==
    /\ pc = "load"
    /\ file.status # "ok"
    /\ result' = << >>
    /\ pc' = "done"
    /\ UNCHANGED << file, posts, enriched_posts, i, j, unified_tags, response,
                    tag_response, calls, outfile, harness_vars >>

\* a plausible slip: a failed extraction is tried a second time
EnrichRetrying ==
    /\ pc = "enrich"
    /\ i <= Len(posts)
    /\ \E r \in ExtractResponses :
          /\ response' = r
          /\ enriched_posts' = Append(enriched_posts, enrich(posts[i], r))
          /\ calls' = calls + (IF r.kind = "object" THEN 1 ELSE 2)
    /\ i' = i + 1
    /\ UNCHANGED << file, pc, posts, j, unified_tags, tag_response, outfile,
                    result, harness_vars >>

\* one iteration of the loop of lines 38-55
Enrich ==
    /\ pc = "enrich"
    /\ i <= Len(posts)
    /\ \E r \in ExtractResponses :
          /\ response' = r
          /\ enriched_posts' = Append(enriched_posts, enrich(posts[i], r))
    /\ calls' = calls + 1
    /\ i' = i + 1
    /\ UNCHANGED << file, pc, posts, j, unified_tags, tag_response, outfile,
                    result, harness_vars >>

\* line 58 when get_unified_tags returns: without a call on an empty set of
\* tags (lines 141-142), else with the mapping made from the answer
Unify ==
    /\ pc = "enrich"
    /\ i > Len(posts)
    /\ ~update_raises(enriched_posts)
    /\ ~join_raises(unique_tags(enriched_posts))
    /\ IF unique_tags(enriched_posts) = { }
       THEN /\ unified_tags' = EmptyMap
            /\ UNCHANGED << tag_response, calls >>
       ELSE /\ \E u \in UnifyResponses :
                  /\ tag_response' = u
                  /\ unified_tags' = mapping_from(u, unique_tags(enriched_posts))
            /\ calls' = calls + 1
    /\ pc' = "rewrite"
    /\ UNCHANGED << file, posts, enriched_posts, i, j, response, outfile,
                    result, harness_vars >>

\* line 58 when get_unified_tags raises TypeError (line 139 or line 144,
\* both outside its try): caught at lines 80-82, which return []
UnifyRaises ==
    /\ pc = "enrich"
    /\ i > Len(posts)
    /\ update_raises(enriched_posts) \/ join_raises(unique_tags(enriched_posts))
    /\ result' = << >>
    /\ pc' = "done"
    /\ UNCHANGED << file, posts, enriched_posts, i, j, unified_tags, response,
                    tag_response, calls, outfile, harness_vars >>

\* one iteration of the loop of lines 61-64
Rewrite ==
    /\ pc = "rewrite"
    /\ j <= Len(enriched_posts)
    /\ \E q \in lists_of(new_tags(unified_tags, enriched_posts[j])) :
          enriched_posts' = [enriched_posts EXCEPT ![j].tags = List(q)]
    /\ j' = j + 1
    /\ UNCHANGED << file, pc, posts, i, unified_tags, response, tag_response,
                    calls, outfile, result, harness_vars >>

\* lines 66-72
Return ==
    /\ pc = "rewrite"
    /\ j > Len(enriched_posts)
    /\ outfile' = IF file.save THEN [written |-> TRUE, content |-> enriched_posts]
                  ELSE outfile
    /\ result' = enriched_posts
    /\ pc' = "done"
    /\ UNCHANGED << file, posts, enriched_posts, i, j, unified_tags, response,
                    tag_response, calls, harness_vars >>

Next ==
    \/ Load
    \/ LoadFails
    \/ Enrich
    \/ Unify
    \/ UnifyRaises
    \/ Rewrite
    \/ Return

Spec == Init /\ [][Next]_vars

-----------------------------------------------------------------------------
(* The sanitizer on its own: any string of at most MaxLen characters,      *)
(* sanitized and then sanitized again.                                     *)

InitSanitizer ==
    /\ raw \in Strings(MaxLen)
    /\ text = raw
    /\ passes = 0
    /\ file = [status |-> "missing", content |-> << >>, save |-> FALSE]
    /\ pc = "sanitizer"
    /\ posts = << >>
    /\ enriched_posts = << >>
    /\ i = 1
    /\ j = 1
    /\ unified_tags = EmptyMap
    /\ response = NoResponse
    /\ tag_response = NoTagResponse
    /\ calls = 0
    /\ outfile = NotWritten
    /\ result = << >>

Sanitize ==
    /\ pc = "sanitizer"
    /\ passes < 2
    /\ text' = clean_unicode_text(text)
    /\ passes' = passes + 1
    /\ UNCHANGED << raw, pipeline_vars >>

NextSanitizer == Sanitize

SpecSanitizer == InitSanitizer /\ [][NextSanitizer]_vars

-----------------------------------------------------------------------------
(* Properties *)

Loaded == file.status = "ok"

N == Len(file.content)

\* the tags of a record, as a set
TagSet(post) == Range(post.tags.l)

\* every tag carried by some record of ps
AllTags(ps) == UNION { TagSet(ps[k]) : k \in 1..Len(ps) }

\* the extraction call raised, or its answer was no JSON, or the parsed
\* answer lacks one of the three keys
ExtractionFailed(r) ==
    \/ r.kind \in { "raise", "text", "array", "number" }
    \/ /\ r.kind = "object"
       /\ \E v \in { r.body.line_count, r.body.language, r.body.tags } : v = Absent

\* the unification call raised, or its answer could not be parsed as a JSON
\* object
UnificationFailed(u) == u.kind \in { "raise", "text", "array", "number" }

\* the record appended by the latest iteration of the enrichment loop
LastEnriched == enriched_posts[Len(enriched_posts)]

\* C1: every record produced by the enrichment loop has a non-null
\* line_count, a language that is "English" or "Hinglish", and a non-empty
\* list of tags, whatever the service answered.
C1_TotalEnrichmentCoverage ==
    pc = "enrich" =>
        \A k \in 1..Len(enriched_posts) :
            /\ enriched_posts[k].line_count.t \notin { "absent", "null" }
            /\ enriched_posts[k].language \in { Str("English"), Str("Hinglish") }
            /\ enriched_posts[k].tags.t = "list"
            /\ enriched_posts[k].tags.l # << >>

\* C2: once the file has loaded as an array of N records, process_posts
\* returns exactly N records, whatever the service answered or raised.
C2_NoRecordDropped ==
    (pc = "done" /\ Loaded) => Len(result) = N

\* C3: when the extraction of a record fails (the call raises, the answer is
\* no JSON, or a required key is missing), the run goes on and the record
\* appended has line_count = newlines of the sanitized text + 1,
\* language = "English" and tags = ["General"].
C3_EnrichmentFailurePolicy ==
    (pc = "enrich" /\ i > 1 /\ ExtractionFailed(response)) =>
        /\ Len(enriched_posts) = i - 1
        /\ LastEnriched.text = clean_unicode_text(posts[i - 1].text)
        /\ LastEnriched.line_count = Num(count(LastEnriched.text, LF) + 1)
        /\ LastEnriched.language = Str("English")
        /\ LastEnriched.tags = List(<< Str("General") >>)

\* C3 witness: a record of two lines was defaulted on the path where
\* extract_metadata re-raises and process_posts fills in the defaults.
C3_Witness ==
    /\ pc = "enrich"
    /\ i > 1
    /\ response.kind = "text"
    /\ LastEnriched.line_count = Num(2)
    /\ LastEnriched.tags = List(<< Str("General") >>)

\* C4, the mapping: after a failed unification call the mapping sends every
\* tag of the records to itself and has no other key.
C4_IdentityMapping ==
    (pc \in { "rewrite", "done" } /\ UnificationFailed(tag_response)) =>
        /\ DOMAIN unified_tags = { e.s : e \in AllTags(enriched_posts) }
        /\ \A k \in DOMAIN unified_tags : unified_tags[k] = Str(k)

\* C4, the rewrite: after a failed unification call a step of the rewrite
\* loop leaves every record with the set of tags it had.
C4_TagSetsKept ==
    (pc = "rewrite" /\ UnificationFailed(tag_response)) =>
        /\ Len(enriched_posts') = Len(enriched_posts)
        /\ \A k \in 1..Len(enriched_posts) :
              TagSet(enriched_posts'[k]) = TagSet(enriched_posts[k])

\* C4: if the unification call raises or its answer cannot be parsed as a
\* JSON object, get_unified_tags returns the identity mapping on the tags of
\* the records, and the rewrite step changes no record's set of tags.
C4_UnificationIdentityFallback ==
    [](C4_IdentityMapping) /\ [][C4_TagSetsKept]_vars

\* C4 witness: the run ended after a unification answer that was no JSON,
\* with a record that carries two tags.
C4_Witness ==
    /\ pc = "done"
    /\ tag_response.kind = "text"
    /\ \E k \in 1..Len(result) : Cardinality(TagSet(result[k])) = 2

\* C5 as stated: whatever the service answers to the unification request,
\* every tag of every enriched record is a key of the mapping returned.
C5_KeyCoverageAnyResponse ==
    (pc = "rewrite" /\ j = 1) =>
        \A e \in AllTags(enriched_posts) : e.s \in DOMAIN unified_tags

\* the answer is a JSON object whose values are all hashable
AnswerAccepted(u) ==
    /\ u.kind = "object"
    /\ \A k \in DOMAIN u.map : u.map[k].t \in { "null", "int", "str" }

\* C5 amended: when the unification request was made, the mapping returned
\* is the service's JSON object as it is if the answer is a JSON object with
\* hashable values (it need not have every tag as a key), and in every other
\* case it has every tag of every enriched record as a key.
C5_KeyCoverageOnFallback ==
    (pc = "rewrite" /\ j = 1 /\ tag_response.kind # "none") =>
        /\ AnswerAccepted(tag_response) => unified_tags = tag_response.map
        /\ ~AnswerAccepted(tag_response) =>
              \A e \in AllTags(enriched_posts) : e.s \in DOMAIN unified_tags

\* C5 witness: get_unified_tags returned the service's object, and a tag of
\* a record is not among its keys.
C5_Witness ==
    /\ pc = "rewrite"
    /\ j = 1
    /\ tag_response.kind = "object"
    /\ unified_tags = tag_response.map
    /\ \E e \in AllTags(enriched_posts) : e.s \notin DOMAIN unified_tags

\* no element occurs twice in q
NoDuplicates(q) == \A a, b \in 1..Len(q) : a # b => q[a] # q[b]

\* M[t] if t is a key of M, else t
Renamed(M, t) == IF t.t = "str" /\ t.s \in DOMAIN M THEN M[t.s] ELSE t

\* C6, a step of the rewrite loop: record j gets the renamed tags of its old
\* tags, each once, and nothing else of the records changes.
C6_RewriteStep ==
    (pc = "rewrite" /\ j' = j + 1) =>
        /\ enriched_posts'[j].tags.t = "list"
        /\ TagSet(enriched_posts'[j])
              = { Renamed(unified_tags, t) : t \in TagSet(enriched_posts[j]) }
        /\ NoDuplicates(enriched_posts'[j].tags.l)
        /\ enriched_posts' = [enriched_posts EXCEPT ![j].tags = enriched_posts'[j].tags]

\* the records and the mapping of the merge scenario
JobMapping ==
    ("Jobseekers" :> Str("Job Search")) @@ ("Job Hunting" :> Str("Job Search"))
        @@ ("Motivation" :> Str("Motivation"))

Tagged(tag) == [Post(<< "a" >>, Num(5)) EXCEPT !.tags = List(<< Str(tag) >>)]

\* C6, the merge scenario: Jobseekers and Job Hunting become Job Search,
\* Motivation stays.
C6_MergeScenario ==
    /\ new_tags(JobMapping, Tagged("Jobseekers")) = { Str("Job Search") }
    /\ new_tags(JobMapping, Tagged("Job Hunting")) = { Str("Job Search") }
    /\ new_tags(JobMapping, Tagged("Motivation")) = { Str("Motivation") }

\* C6: after the rewrite step each record's tags are, as a set, the image of
\* its former tags under M (a tag that is no key of M stays), stored as a
\* list without duplicates.
C6_TagRewriteSemantics ==
    [](C6_MergeScenario) /\ [][C6_RewriteStep]_vars

\* C6 witness: with A and B both mapped to C, a record tagged A and B ended
\* with the single tag C, next to a record whose tag General stayed.
C6_Witness ==
    /\ pc = "done"
    /\ "A" \in DOMAIN unified_tags
    /\ "B" \in DOMAIN unified_tags
    /\ unified_tags["A"] = Str("C")
    /\ unified_tags["B"] = Str("C")
    /\ response.body.tags = List(<< Str("A"), Str("B") >>)
    /\ \E k \in 1..Len(result) : result[k].tags = List(<< Str("C") >>)
    /\ \E k \in 1..Len(result) : result[k].tags = List(<< Str("General") >>)

\* C7 as stated, on the runs that return all N records: the service has been
\* invoked N + 1 times.
C7_AlwaysOneMoreCall ==
    (pc = "done" /\ Loaded /\ Len(result) = N) => calls = N + 1

\* C7 amended: the service is invoked exactly once per record for enrichment
\* (no retry), and once more for unification exactly when the enriched
\* records carry at least one tag and get_unified_tags gets as far as the
\* request; so a run makes N + 1 calls, or N calls when no tag was collected
\* (N = 0 included) or get_unified_tags raised before the request.
C7_ServiceCallCount ==
    Loaded =>
        /\ pc = "enrich" => calls = i - 1 /\ i - 1 <= N
        /\ (pc = "rewrite" /\ j = 1) =>
              calls = N + (IF AllTags(enriched_posts) = { } THEN 0 ELSE 1)
        /\ pc \in { "rewrite", "done" } =>
              calls = N + (IF tag_response.kind = "none" THEN 0 ELSE 1)

\* C7 witness: a run over two records, the second extraction call raised,
\* ended after three calls.
C7_Witness ==
    /\ pc = "done"
    /\ N = 2
    /\ Len(result) = 2
    /\ response.kind = "raise"
    /\ calls = 3

\* C8: every caller-supplied field other than text and the three derived
\* fields has the same value in the output record as in the input record.
C8_CallerFieldsUntouched ==
    \A k \in 1..Len(enriched_posts) :
        enriched_posts[k].engagement = file.content[k].engagement

IsAscii(s) == \A k \in 1..Len(s) : s[k] \in Ascii

\* a backslash directly followed by n or t
HasEscape(s) == \E k \in 1..(Len(s) - 1) : s[k] = BS /\ s[k + 1] \in { "n", "t" }

\* C9 as stated: any ASCII string, backslashes included, comes back
\* unchanged.
C9_AsciiUnchanged ==
    (passes >= 1 /\ IsAscii(raw)) => text = raw

\* C9 amended: an ASCII string in which no backslash is directly followed by
\* n or t comes back unchanged, and for every ASCII string sanitizing twice
\* gives what sanitizing once gives.
C9_IdempotentSanitization ==
    /\ (passes >= 1 /\ IsAscii(raw) /\ ~HasEscape(raw)) => text = raw
    /\ (passes = 2 /\ IsAscii(raw)) => text = clean_unicode_text(raw)

\* C9 witness: an ASCII string with a backslash that starts no escape went
\* through twice and is unchanged.
C9_Witness ==
    /\ passes = 2
    /\ IsAscii(raw)
    /\ \E k \in 1..Len(raw) : raw[k] = BS
    /\ ~HasEscape(raw)
    /\ text = raw

\* the short circuit of lines 141-142 was taken: get_unified_tags returned
\* without a request
ShortCircuit == pc \in { "rewrite", "done" } /\ tag_response.kind = "none"

\* C10, the mapping: no request is made exactly when no record carries a
\* tag, and then the mapping is empty.
C10_EmptyMapping ==
    /\ (pc = "rewrite" /\ j = 1) =>
           (tag_response.kind = "none" <=> AllTags(enriched_posts) = { })
    /\ (ShortCircuit /\ pc = "rewrite") => unified_tags = EmptyMap

\* C10, the rewrite: after the short circuit a step of the rewrite loop
\* leaves every record as it was.
C10_RecordsKept ==
    (ShortCircuit /\ pc = "rewrite") => enriched_posts' = enriched_posts

\* C10: if no record carries any tag, get_unified_tags returns the empty
\* mapping and the rewrite step leaves every record's tags field as it was.
C10_EmptyTagSetShortCircuit ==
    [](C10_EmptyMapping) /\ [][C10_RecordsKept]_vars

\* C10 witness: a run over two records, each with an empty list of tags,
\* ended without a unification request.
C10_Witness ==
    /\ pc = "done"
    /\ Loaded
    /\ Len(result) = 2
    /\ tag_response.kind = "none"
    /\ \A k \in 1..Len(result) : result[k].tags = List(<< >>)

====
